---- MODULE Spec2Model ----
(***************************************************************************)
(* Model of src/chart_types/partition_chart/renderer/canvas/partition.tsx  *)
(* (PartitionComponent and its redux binding).                             *)
(*                                                                         *)
(* The component is driven by its host: React renders it with the props    *)
(* that mapStateToProps projects from the chart state, commits the         *)
(* returned element (attaching or detaching canvasRef), and then runs      *)
(* componentDidMount / componentDidUpdate.  handleMouseMove is a public    *)
(* method and may be called whenever no callback is running.               *)
(*                                                                         *)
(* Numbers: lengths are integers in logical pixels.  Pixel ratios are kept *)
(* in halves (2 is ratio 1.0, 5 is ratio 2.5), and so are the canvas       *)
(* width/height attributes, which are products of a length and a ratio.    *)
(***************************************************************************)
EXTENDS Integers, Sequences, FiniteSets, TLC

VARIABLES
    windowDevicePixelRatio, \* window.devicePixelRatio, owned by the browser
    devicePixelRatio,       \* this.devicePixelRatio
    ctx,                    \* this.ctx
    canvasRef,              \* this.canvasRef.current
    props,                  \* this.props
    rendered,               \* what the last render() returned
    boundingRect,           \* what canvasRef.current.getBoundingClientRect() returns
    contextAvailable,       \* whether canvas.getContext('2d') yields a context
    pc,                     \* position of the host in the component's lifecycle
    cycle,                  \* number of render passes so far
    calls,                  \* calls made by the lifecycle callback of this cycle
    log,                    \* draw / notification calls of all cycles, in order
    picked,                 \* the last handleMouseMove call of this cycle
    prevPicked,             \* the handleMouseMove call before it in this cycle
    prevProps               \* the props of the render pass before this one

vars == <<windowDevicePixelRatio, devicePixelRatio, ctx, canvasRef, props,
          rendered, boundingRect, contextAvailable, pc, cycle, calls, log, picked,
          prevPicked, prevProps>>

-----------------------------------------------------------------------------
(* Bounds *)

\* number of render passes (mount + updates) explored
MaxCycles == 3

\* pixel ratios the browser may report, in halves: 1.0 and 2.5
Ratios == {2, 5}

\* logical widths and heights the host layout may supply
Widths == {0, 100}
Heights == {0, 50}

\* pointer positions and canvas positions, in viewport coordinates
ClientXs == {60, 75}
ClientYs == {60}
Rects == {[left |-> 10, top |-> 10], [left |-> 0, top |-> 0]}

-----------------------------------------------------------------------------
(* Values *)

Null == [kind |-> "null", id |-> 0]
CanvasElement(n) == [kind |-> "canvas", id |-> n]
\* the 2d context of a canvas element; getContext returns the same one each time
Context2d(canvas) == [kind |-> "context2d", id |-> canvas.id]

Undefined == [kind |-> "undefined", value |-> <<>>]
ArrayOf(s) == [kind |-> "array", value |-> s]

NoRect == [left |-> 0, top |-> 0]
NoPick == [kind |-> "nopick"]

-----------------------------------------------------------------------------
(* Geometry snapshots supplied by the partitionGeometries selector.        *)
(* A hierarchy node is [children |-> sequence of <<key, subtree>>]; a      *)
(* subtree is [hasInput, inputIndex, children].                            *)

Leaf(hasInput, indices) == [hasInput |-> hasInput, inputIndex |-> indices, children |-> <<>>]

SunburstInner ==
    [hasInput |-> TRUE, inputIndex |-> <<1, 2>>,
     children |-> << <<"a1", Leaf(TRUE, <<2, 3>>)>>, <<"a2", Leaf(FALSE, <<>>)>> >>]

SunburstRoot ==
    [hasInput |-> TRUE, inputIndex |-> <<1, 2, 3, 4>>,
     children |-> << <<"a", SunburstInner>>, <<"b", Leaf(TRUE, <<4>>)>> >>]

TreemapRoot ==
    [hasInput |-> TRUE, inputIndex |-> <<5, 6>>,
     children |-> << <<"t", Leaf(TRUE, <<5, 6, 5>>)>> >>]

Abs(n) == IF n < 0 THEN -n ELSE n

\* the shapes of the sunburst snapshot, innermost first, with the radius
\* (in the max norm, around the disk center) within which each is hit
SunburstQuads ==
    << [quad |-> [dataName |-> "a1", parent |-> SunburstInner], radius |-> 12],
       [quad |-> [dataName |-> "a", parent |-> SunburstRoot], radius |-> 20],
       [quad |-> [dataName |-> "a2", parent |-> SunburstInner], radius |-> 20],
       [quad |-> [dataName |-> "gone", parent |-> SunburstRoot], radius |-> 12],
       [quad |-> [dataName |-> "b", parent |-> SunburstRoot], radius |-> 5] >>

\* the shapes of the treemap snapshot with the right edge of each box
TreemapQuads ==
    << [quad |-> [dataName |-> "t", parent |-> TreemapRoot], right |-> 70] >>

RECURSIVE SunburstPick(_, _, _)
SunburstPick(i, x, y) ==
    IF i > Len(SunburstQuads) THEN <<>>
    ELSE (IF Abs(x) < SunburstQuads[i].radius /\ Abs(y) < SunburstQuads[i].radius
            THEN <<SunburstQuads[i].quad>> ELSE <<>>) \o SunburstPick(i + 1, x, y)

RECURSIVE TreemapPick(_, _, _)
TreemapPick(i, x, y) ==
    IF i > Len(TreemapQuads) THEN <<>>
    ELSE (IF x >= 0 /\ x < TreemapQuads[i].right /\ y >= 0
            THEN <<TreemapQuads[i].quad>> ELSE <<>>) \o TreemapPick(i + 1, x, y)

\* geometries.pickQuads(x, y): the snapshot's spatial query
PickQuads(picker, x, y) ==
    CASE picker = "sunburst" -> SunburstPick(1, x, y)
      [] picker = "treemap" -> TreemapPick(1, x, y)
      [] OTHER -> <<>>

\* a sunburst laid out for a 100 x 50 container
SunburstGeometry ==
    [config |-> [width |-> 100, height |-> 50, partitionLayout |-> "sunburst"],
     diskCenter |-> [x |-> 50, y |-> 50],
     pickQuads |-> "sunburst"]

\* a treemap laid out for an earlier, larger container
TreemapGeometry ==
    [config |-> [width |-> 200, height |-> 100, partitionLayout |-> "treemap"],
     diskCenter |-> [x |-> 0, y |-> 0],
     pickQuads |-> "treemap"]

nullShapeViewModel ==
    [config |-> [width |-> 0, height |-> 0, partitionLayout |-> "sunburst"],
     diskCenter |-> [x |-> 0, y |-> 0],
     pickQuads |-> "null"]

Geometries == {SunburstGeometry, TreemapGeometry}

-----------------------------------------------------------------------------
(* The redux binding *)

DimensionsSet == [width : Widths, height : Heights, left : {0}, top : {0}]

\* the part of GlobalChartState that mapStateToProps reads
GlobalChartStates ==
    [isInitialized : BOOLEAN, geometries : Geometries, parentDimensions : DimensionsSet]

DEFAULT_PROPS ==
    [initialized |-> FALSE,
     geometries |-> nullShapeViewModel,
     chartContainerDimensions |-> [width |-> 0, height |-> 0, left |-> 0, top |-> 0]]

mapStateToProps(state) ==
    IF ~state.isInitialized THEN DEFAULT_PROPS
    ELSE [initialized |-> TRUE,
          geometries |-> state.geometries,
          chartContainerDimensions |-> state.parentDimensions]

\* every props value of type ReactiveChartStateProps over the modelled values
PropsSpace ==
    [initialized : BOOLEAN,
     geometries : Geometries \cup {nullShapeViewModel},
     chartContainerDimensions : DimensionsSet]

-----------------------------------------------------------------------------
(* The component's methods *)

\* renderPartitionCanvas2d(this.ctx, this.devicePixelRatio, {...})
DrawCall(c, dpr, geometries) ==
    [op |-> "renderPartitionCanvas2d", ctx |-> c, dpr |-> dpr, geometries |-> geometries]
NotifyCall == [op |-> "onChartRendered"]
GetContextCall(canvas, result) == [op |-> "getContext", canvas |-> canvas, result |-> result]

\* drawCanvas() without its `if (this.ctx)` guard
drawCanvas_Unguarded(c, p, dpr) ==
    <<DrawCall(c, dpr,
               [p.geometries EXCEPT !.config.width = p.chartContainerDimensions.width,
                                    !.config.height = p.chartContainerDimensions.height])>>

\* drawCanvas() that passes the snapshot with the size it was laid out for
drawCanvas_NoOverride(c, p, dpr) ==
    IF c # Null THEN <<DrawCall(c, dpr, p.geometries)>> ELSE <<>>

\* drawCanvas() that reads window.devicePixelRatio at every draw
drawCanvas_RereadsRatio(c, p, dpr) ==
    IF c # Null
      THEN <<DrawCall(c, windowDevicePixelRatio,
                      [p.geometries EXCEPT !.config.width = p.chartContainerDimensions.width,
                                           !.config.height = p.chartContainerDimensions.height])>>
      ELSE <<>>

\* drawCanvas(): the calls it makes
drawCanvas(c, p, dpr) ==
    IF c # Null
      THEN <<DrawCall(c, dpr,
                      [p.geometries EXCEPT !.config.width = p.chartContainerDimensions.width,
                                           !.config.height = p.chartContainerDimensions.height])>>
      ELSE <<>>

\* canvas.getContext('2d')
getContext(canvas, available) == IF available THEN Context2d(canvas) ELSE Null

\* tryCanvasContext(): the value it assigns to this.ctx
tryCanvasContext(canvas, available) ==
    IF canvas = Null THEN Null ELSE getContext(canvas, available)

\* the getContext call tryCanvasContext makes, if any
tryCanvasContextCalls(canvas, available) ==
    IF canvas = Null THEN <<>>
    ELSE <<GetContextCall(canvas, getContext(canvas, available))>>

\* componentDidUpdate() that never retries the acquisition
componentDidUpdateCtx_NoRetry(c, canvas, available) == c

\* componentDidUpdate(): `if (!this.ctx) this.tryCanvasContext()`
componentDidUpdateCtx(c, canvas, available) ==
    IF c = Null THEN tryCanvasContext(canvas, available) ELSE c

componentDidUpdateTry(c, canvas, available) ==
    IF c = Null THEN tryCanvasContextCalls(canvas, available) ELSE <<>>

\* componentDidUpdate() that notifies before it draws
componentDidUpdateDraw_NotifyFirst(c, p, dpr) ==
    IF p.initialized
      THEN <<[op |-> "onChartRendered"]>> \o drawCanvas(c, p, dpr)
      ELSE <<>>

\* componentDidUpdate() that ignores this.props.initialized
componentDidUpdateDraw_Ungated(c, p, dpr) ==
    drawCanvas(c, p, dpr) \o <<[op |-> "onChartRendered"]>>

\* componentDidUpdate(prevProps) that draws the props of the previous pass
componentDidUpdateDraw_UsesPrevProps(c, p, dpr) ==
    IF p.initialized
      THEN drawCanvas(c, prevProps, dpr) \o <<[op |-> "onChartRendered"]>>
      ELSE <<>>

\* componentDidUpdate(): `if (this.props.initialized) {...}`, given this.ctx
componentDidUpdateDraw(c, p, dpr) ==
    IF p.initialized THEN drawCanvas(c, p, dpr) \o <<NotifyCall>> ELSE <<>>

\* componentDidMount(): `if (this.props.initialized) {...}`, given this.ctx
componentDidMountDraw(c, p, dpr) ==
    IF p.initialized THEN drawCanvas(c, p, dpr) \o <<NotifyCall>> ELSE <<>>

\* render() that forgets the height in its suppression test
render_WidthOnly(p, dpr) ==
    IF ~p.initialized \/ p.chartContainerDimensions.width = 0
      THEN Null
      ELSE [kind |-> "canvas",
            className |-> "echCanvasRenderer",
            width |-> p.chartContainerDimensions.width * dpr,
            height |-> p.chartContainerDimensions.height * dpr,
            style |-> [width |-> p.chartContainerDimensions.width,
                       height |-> p.chartContainerDimensions.height]]

\* render() that sizes the backing store in logical pixels
render_NoRatio(p, dpr) ==
    IF ~p.initialized \/ p.chartContainerDimensions.width = 0
                      \/ p.chartContainerDimensions.height = 0
      THEN Null
      ELSE [kind |-> "canvas",
            className |-> "echCanvasRenderer",
            width |-> p.chartContainerDimensions.width * 2,
            height |-> p.chartContainerDimensions.height * 2,
            style |-> [width |-> p.chartContainerDimensions.width,
                       height |-> p.chartContainerDimensions.height]]

\* render(): null or the <canvas> element description
render(p, dpr) ==
    IF ~p.initialized \/ p.chartContainerDimensions.width = 0
                      \/ p.chartContainerDimensions.height = 0
      THEN Null
      ELSE [kind |-> "canvas",
            className |-> "echCanvasRenderer",
            width |-> p.chartContainerDimensions.width * dpr,
            height |-> p.chartContainerDimensions.height * dpr,
            style |-> [width |-> p.chartContainerDimensions.width,
                       height |-> p.chartContainerDimensions.height]]

\* the early-return condition without `!this.ctx`
pickRejected_NoCtxTest(canvas, c, p) ==
    \/ canvas = Null
    \/ ~p.initialized
    \/ p.chartContainerDimensions.width = 0
    \/ p.chartContainerDimensions.height = 0

\* handleMouseMove: the early-return condition
pickRejected(canvas, c, p) ==
    \/ canvas = Null
    \/ c = Null
    \/ ~p.initialized
    \/ p.chartContainerDimensions.width = 0
    \/ p.chartContainerDimensions.height = 0

\* chart-local coordinates that are not re-centered on the disk center
chartLocal_NoDiskCenter(e, box, diskCenter) ==
    [x |-> e.clientX - box.left,
     y |-> e.clientY - box.top]

\* handleMouseMove: chart-local coordinates of the pointer
chartLocal(e, box, diskCenter) ==
    [x |-> e.clientX - box.left - diskCenter.x,
     y |-> e.clientY - box.top - diskCenter.y]

\* node.children.find(([key]) => key === shape.dataName): index of the first
\* match, 0 when there is none
RECURSIVE findChild(_, _, _)
findChild(children, dataName, i) ==
    IF i > Len(children) THEN 0
    ELSE IF children[i][1] = dataName THEN i
    ELSE findChild(children, dataName, i + 1)

\* shapeNode[1][INPUT_KEY] || []
inputIndices(subtree) == IF subtree.hasInput THEN subtree.inputIndex ELSE <<>>

SeqToSet(s) == {s[i] : i \in 1..Len(s)}

\* the forEach with a body that replaces datumIndices instead of adding to it
RECURSIVE collectDatumIndices_Overwrite(_, _, _)
collectDatumIndices_Overwrite(pickedShapes, i, datumIndices) ==
    IF i > Len(pickedShapes) THEN datumIndices
    ELSE LET shape == pickedShapes[i]
             node == shape.parent
             k == findChild(node.children, shape.dataName, 1)
         IN  collectDatumIndices_Overwrite(pickedShapes, i + 1,
                 IF k # 0
                   THEN SeqToSet(inputIndices(node.children[k][2]))
                   ELSE datumIndices)

\* the forEach that stops at the first shape without a matching child
RECURSIVE collectDatumIndices_AbortOnMissing(_, _, _)
collectDatumIndices_AbortOnMissing(pickedShapes, i, datumIndices) ==
    IF i > Len(pickedShapes) THEN datumIndices
    ELSE LET shape == pickedShapes[i]
             node == shape.parent
             k == findChild(node.children, shape.dataName, 1)
         IN  IF k = 0 THEN datumIndices
             ELSE collectDatumIndices_AbortOnMissing(pickedShapes, i + 1,
                      datumIndices \cup SeqToSet(inputIndices(node.children[k][2])))

\* the forEach over pickedShapes: the contents of datumIndices afterwards
RECURSIVE collectDatumIndices(_, _, _)
collectDatumIndices(pickedShapes, i, datumIndices) ==
    IF i > Len(pickedShapes) THEN datumIndices
    ELSE LET shape == pickedShapes[i]
             node == shape.parent
             k == findChild(node.children, shape.dataName, 1)
         IN  collectDatumIndices(pickedShapes, i + 1,
                 IF k # 0
                   THEN datumIndices \cup SeqToSet(inputIndices(node.children[k][2]))
                   ELSE datumIndices)

\* the shapes of a sequence that have a matching child in their parent
RECURSIVE ResolvedOnly(_)
ResolvedOnly(shapes) ==
    IF shapes = <<>> THEN <<>>
    ELSE (IF findChild(Head(shapes).parent.children, Head(shapes).dataName, 1) # 0
            THEN <<Head(shapes)>> ELSE <<>>) \o ResolvedOnly(Tail(shapes))

\* handleMouseMove(e) that returns only the shapes it found indices for
handleMouseMove_ReturnsResolved(canvas, c, p, box, e) ==
    IF pickRejected(canvas, c, p)
      THEN [event |-> e, returned |-> Undefined, calls |-> <<>>, datumIndices |-> {}]
      ELSE LET at == chartLocal(e, box, p.geometries.diskCenter)
               pickedShapes == PickQuads(p.geometries.pickQuads, at.x, at.y)
           IN  [event |-> e,
                returned |-> ArrayOf(ResolvedOnly(pickedShapes)),
                calls |-> << [op |-> "getBoundingClientRect"],
                             [op |-> "pickQuads", x |-> at.x, y |-> at.y] >>,
                datumIndices |-> collectDatumIndices(pickedShapes, 1, {})]

\* handleMouseMove(e): its return value, the calls it makes and datumIndices
handleMouseMove(canvas, c, p, box, e) ==
    IF pickRejected(canvas, c, p)
      THEN [event |-> e, returned |-> Undefined, calls |-> <<>>, datumIndices |-> {}]
      ELSE LET at == chartLocal(e, box, p.geometries.diskCenter)
               pickedShapes == PickQuads(p.geometries.pickQuads, at.x, at.y)
           IN  [event |-> e,
                returned |-> ArrayOf(pickedShapes),
                calls |-> << [op |-> "getBoundingClientRect"],
                             [op |-> "pickQuads", x |-> at.x, y |-> at.y] >>,
                datumIndices |-> collectDatumIndices(pickedShapes, 1, {})]

\* the draw / notification calls of a callback, tagged with its cycle
RECURSIVE Tagged(_, _)
Tagged(cs, n) ==
    IF cs = <<>> THEN <<>>
    ELSE (IF Head(cs).op = "getContext" THEN <<>>
          ELSE <<[op |-> Head(cs).op, cycle |-> n]>>) \o Tagged(Tail(cs), n)

-----------------------------------------------------------------------------
(* Behaviour *)

\* state after the constructor has run
Init ==
    /\ windowDevicePixelRatio \in Ratios
    /\ devicePixelRatio = windowDevicePixelRatio
    /\ ctx = Null
    /\ canvasRef = Null
    /\ props = DEFAULT_PROPS
    /\ rendered = Null
    /\ boundingRect = NoRect
    /\ contextAvailable = FALSE
    /\ pc = "mount"
    /\ cycle = 0
    /\ calls = <<>>
    /\ log = <<>>
    /\ picked = NoPick
    /\ prevPicked = NoPick
    /\ prevProps = DEFAULT_PROPS

\* The host renders the component with the props projected from the chart
\* state and commits the result: a returned canvas is attached to canvasRef
\* (the element already there is kept), a null result detaches it.
Render ==
    /\ pc \in {"mount", "idle"}
    /\ cycle < MaxCycles
    /\ \E state \in GlobalChartStates, available \in BOOLEAN, box \in Rects :
         /\ props' = mapStateToProps(state)
         /\ rendered' = render(props', devicePixelRatio)
         /\ IF rendered' = Null
              THEN /\ canvasRef' = Null
                   /\ boundingRect' = NoRect
                   /\ contextAvailable' = FALSE
              ELSE /\ canvasRef' = IF canvasRef # Null THEN canvasRef
                                   ELSE CanvasElement(cycle + 1)
                   /\ boundingRect' = box
                   /\ contextAvailable' = available
    /\ cycle' = cycle + 1
    /\ pc' = IF pc = "mount" THEN "didMount" ELSE "didUpdate"
    /\ calls' = <<>>
    /\ picked' = NoPick
    /\ prevPicked' = NoPick
    /\ prevProps' = props
    /\ UNCHANGED <<windowDevicePixelRatio, devicePixelRatio, ctx, log>>

ComponentDidMount ==
    /\ pc = "didMount"
    /\ ctx' = tryCanvasContext(canvasRef, contextAvailable)
    /\ calls' = tryCanvasContextCalls(canvasRef, contextAvailable)
                  \o componentDidMountDraw(ctx', props, devicePixelRatio)
    /\ log' = log \o Tagged(calls', cycle)
    /\ pc' = "idle"
    /\ UNCHANGED <<windowDevicePixelRatio, devicePixelRatio, canvasRef, props,
                   rendered, boundingRect, contextAvailable, cycle, picked,
                   prevPicked, prevProps>>

ComponentDidUpdate ==
    /\ pc = "didUpdate"
    /\ ctx' = componentDidUpdateCtx(ctx, canvasRef, contextAvailable)
    /\ calls' = componentDidUpdateTry(ctx, canvasRef, contextAvailable)
                  \o componentDidUpdateDraw(ctx', props, devicePixelRatio)
    /\ log' = log \o Tagged(calls', cycle)
    /\ pc' = "idle"
    /\ UNCHANGED <<windowDevicePixelRatio, devicePixelRatio, canvasRef, props,
                   rendered, boundingRect, contextAvailable, cycle, picked,
                   prevPicked, prevProps>>

\* handleMouseMove that answers a repeated pointer position with nothing
HandleMouseMove_Debounced ==
    /\ pc = "idle"
    /\ \E e \in [clientX : ClientXs, clientY : ClientYs] :
         picked' = IF picked # NoPick /\ picked.event = e
                     THEN [event |-> e, returned |-> Undefined, calls |-> <<>>,
                           datumIndices |-> {}]
                     ELSE handleMouseMove(canvasRef, ctx, props, boundingRect, e)
    /\ prevPicked' = picked
    /\ UNCHANGED <<windowDevicePixelRatio, devicePixelRatio, ctx, canvasRef, props,
                   rendered, boundingRect, contextAvailable, pc, cycle, calls, log,
                   prevProps>>

\* handleMouseMove that redraws the chart after picking
HandleMouseMove_Redraws ==
    /\ pc = "idle"
    /\ \E e \in [clientX : ClientXs, clientY : ClientYs] :
         picked' = handleMouseMove(canvasRef, ctx, props, boundingRect, e)
    /\ prevPicked' = picked
    /\ calls' = calls \o drawCanvas(ctx, props, devicePixelRatio)
    /\ log' = log \o Tagged(drawCanvas(ctx, props, devicePixelRatio), cycle)
    /\ UNCHANGED <<windowDevicePixelRatio, devicePixelRatio, ctx, canvasRef, props,
                   rendered, boundingRect, contextAvailable, pc, cycle, prevProps>>

HandleMouseMove ==
    /\ pc = "idle"
    /\ \E e \in [clientX : ClientXs, clientY : ClientYs] :
         picked' = handleMouseMove(canvasRef, ctx, props, boundingRect, e)
    /\ prevPicked' = picked
    /\ UNCHANGED <<windowDevicePixelRatio, devicePixelRatio, ctx, canvasRef, props,
                   rendered, boundingRect, contextAvailable, pc, cycle, calls, log,
                   prevProps>>

\* the window moves to a monitor with another pixel ratio
WindowMoved ==
    /\ pc = "idle"
    /\ windowDevicePixelRatio' \in Ratios \ {windowDevicePixelRatio}
    /\ UNCHANGED <<devicePixelRatio, ctx, canvasRef, props, rendered, boundingRect,
                   contextAvailable, pc, cycle, calls, log, picked, prevPicked,
                   prevProps>>

Next ==
    \/ Render
    \/ ComponentDidMount
    \/ ComponentDidUpdate
    \/ HandleMouseMove
    \/ WindowMoved

Spec == Init /\ [][Next]_vars

-----------------------------------------------------------------------------
(* Properties *)

Width == props.chartContainerDimensions.width
Height == props.chartContainerDimensions.height
ZeroDimension == Width = 0 \/ Height = 0

Drew(cs) == \E i \in 1..Len(cs) : cs[i].op = "renderPartitionCanvas2d"
Notifications(cs) == Cardinality({i \in 1..Len(cs) : cs[i].op = "onChartRendered"})
QueriesOf(cs) == {i \in 1..Len(cs) : cs[i].op = "pickQuads"}
ReadsRect(cs) == \E i \in 1..Len(cs) : cs[i].op = "getBoundingClientRect"

\* C1: a mount or update callback that ran while either container
\* dimension is zero has not invoked the drawing routine.
C1_ZeroDimensionNeverDraws ==
    (pc = "idle" /\ ZeroDimension) => ~Drew(calls)

\* C2: a mount or update callback invokes the drawing routine or emits the
\* render-completed notification only if the chart is initialized and both
\* container dimensions are non-zero.
C2_RenderOnlyWhenDimensioned ==
    (pc = "idle" /\ (Drew(calls) \/ Notifications(calls) > 0))
        => (props.initialized /\ ~ZeroDimension)

\* C3: a mount or update callback emits exactly one notification if it
\* invoked the drawing routine and none if it did not.
C3_NotifyIffDrawn ==
    pc = "idle" => Notifications(calls) = (IF Drew(calls) THEN 1 ELSE 0)

\* C4: in the recorded order of calls, the notification of a cycle never
\* precedes the draw of that cycle, in the callback just run and in the
\* record of all callbacks so far.
C4_NotifyAfterDraw ==
    /\ \A i, j \in 1..Len(calls) :
         (calls[i].op = "renderPartitionCanvas2d" /\ calls[j].op = "onChartRendered")
            => i < j
    /\ \A i, j \in 1..Len(log) :
         (/\ log[i].op = "renderPartitionCanvas2d"
          /\ log[j].op = "onChartRendered"
          /\ log[i].cycle = log[j].cycle) => i < j

\* two cycles have drawn and notified
C4_Witness ==
    /\ pc = "idle"
    /\ \E i, j \in 1..Len(log) :
         /\ log[i].op = "renderPartitionCanvas2d"
         /\ log[j].op = "renderPartitionCanvas2d"
         /\ log[i].cycle # log[j].cycle
    /\ Drew(calls) /\ Notifications(calls) = 1

\* C5: with initialized = false, whatever the dimensions and whether or not
\* a context is held, a callback neither draws nor notifies, render presents
\* no surface and pick returns none.  Stated of the props the component has
\* and of every props value it could be given in its current state.
C5_UninitializedIsInert ==
    /\ (~props.initialized /\ pc = "idle")
          => (~Drew(calls) /\ Notifications(calls) = 0)
    /\ ~props.initialized => rendered = Null
    /\ (~props.initialized /\ picked # NoPick) => picked.returned = Undefined
    /\ \A p \in PropsSpace : ~p.initialized =>
          /\ componentDidMountDraw(ctx, p, devicePixelRatio) = <<>>
          /\ componentDidUpdateDraw(ctx, p, devicePixelRatio) = <<>>
          /\ render(p, devicePixelRatio) = Null
          /\ \A e \in [clientX : ClientXs, clientY : ClientYs], box \in Rects,
                canvas \in {canvasRef, CanvasElement(1)} :
                handleMouseMove(canvas, ctx, p, box, e).returned = Undefined

\* an update and a pick have run uninitialized while a context was held
C5_Witness ==
    /\ ~props.initialized
    /\ ctx # Null
    /\ pc = "idle"
    /\ picked # NoPick

\* C6: a surface is presented if and only if the chart is initialized and
\* both dimensions are non-zero, and then it is one canvas element.
C6_SurfaceIffNotSuppressed ==
    pc # "mount" =>
        /\ (rendered # Null) <=> (props.initialized /\ Width # 0 /\ Height # 0)
        /\ rendered # Null => (rendered.kind = "canvas" /\ canvasRef # Null)
        /\ rendered = Null => canvasRef = Null

\* a surface was presented earlier (its context is still held) and is now
\* withdrawn because a dimension is zero although the chart is initialized
C6_Witness ==
    /\ pc = "idle"
    /\ ctx # Null
    /\ props.initialized
    /\ ZeroDimension
    /\ rendered = Null

\* C7: pick returns none, without querying the spatial index or reading the
\* bounding rectangle, when the surface is not mounted, no context is held,
\* the chart is not initialized or a dimension is zero; otherwise it
\* returns a sequence.
C7_PickPreconditions ==
    picked # NoPick =>
        IF canvasRef = Null \/ ctx = Null \/ ~props.initialized \/ ZeroDimension
          THEN /\ picked.returned = Undefined
               /\ QueriesOf(picked.calls) = {}
               /\ ~ReadsRect(picked.calls)
          ELSE /\ picked.returned.kind = "array"
               /\ picked.returned # Undefined

\* a pick was rejected only because no context is held
C7_Witness ==
    /\ picked # NoPick
    /\ canvasRef # Null
    /\ ctx = Null
    /\ props.initialized
    /\ ~ZeroDimension
    /\ picked.returned = Undefined

\* C8: while no context is held, callbacks do not draw and picks return
\* none; a context comes to be held only by an acquisition attempt that
\* succeeds on the mounted surface, and once one is held an initialized
\* callback draws.
C8_NoContextIsAbsence ==
    /\ [](ctx = Null =>
            /\ (pc = "idle" => ~Drew(calls))
            /\ (picked # NoPick =>
                    (picked.returned = Undefined /\ picked.calls = <<>>)))
    /\ [][(ctx = Null /\ ctx' # Null) =>
            /\ canvasRef # Null
            /\ contextAvailable
            /\ ctx' = Context2d(canvasRef)
            /\ calls'[1] = GetContextCall(canvasRef, ctx')]_vars
    /\ []((pc = "idle" /\ ctx # Null /\ props.initialized) => Drew(calls))

\* the surface is mounted but supplied no context: the callback has
\* notified without drawing and a pick has returned none
C8_Witness ==
    /\ pc = "idle"
    /\ ctx = Null
    /\ canvasRef # Null
    /\ Notifications(calls) = 1
    /\ picked # NoPick

\* C9: an update callback entered with no context held attempts the
\* acquisition first; if the surface is mounted and can supply a context,
\* that context is held after the update and, if initialized, the drawing
\* routine has run with it in that same update.
C9_RetryOnUpdate ==
    [][(pc = "didUpdate" /\ ctx = Null /\ pc' = "idle") =>
          /\ canvasRef # Null =>
                (Len(calls') >= 1 /\ calls'[1].op = "getContext"
                                  /\ calls'[1].canvas = canvasRef)
          /\ (canvasRef # Null /\ contextAvailable) =>
                /\ ctx' = Context2d(canvasRef)
                /\ props.initialized =>
                      \E i \in 2..Len(calls') :
                          /\ calls'[i].op = "renderPartitionCanvas2d"
                          /\ calls'[i].ctx = Context2d(canvasRef)]_vars

\* the component was mounted without a surface; a later update found the
\* surface, acquired its context and drew with it
C9_Witness ==
    /\ pc = "idle"
    /\ canvasRef # Null
    /\ canvasRef.id >= 2
    /\ ctx = Context2d(canvasRef)
    /\ Len(calls) = 3
    /\ calls[1].op = "getContext"
    /\ calls[2].op = "renderPartitionCanvas2d"
    /\ calls[2].ctx = ctx

\* C10: when pick's preconditions hold, the spatial index is queried
\* exactly once, at the pointer position minus the surface rectangle's
\* corner minus the disk center.
C10_ChartLocalQuery ==
    (/\ picked # NoPick
     /\ canvasRef # Null /\ ctx # Null /\ props.initialized /\ ~ZeroDimension)
        => /\ Cardinality(QueriesOf(picked.calls)) = 1
           /\ \A i \in QueriesOf(picked.calls) :
                /\ picked.calls[i].x = picked.event.clientX - boundingRect.left
                                          - props.geometries.diskCenter.x
                /\ picked.calls[i].y = picked.event.clientY - boundingRect.top
                                          - props.geometries.diskCenter.y

\* disk center (50,50), surface at (10,10), pointer at (60,60): query at (0,0)
C10_Witness ==
    /\ picked # NoPick
    /\ props.geometries.diskCenter = [x |-> 50, y |-> 50]
    /\ boundingRect = [left |-> 10, top |-> 10]
    /\ picked.event = [clientX |-> 60, clientY |-> 60]
    /\ \E i \in 1..Len(picked.calls) :
          picked.calls[i] = [op |-> "pickQuads", x |-> 0, y |-> 0]

\* pick's preconditions hold and a pick has run
PickHeld ==
    /\ picked # NoPick
    /\ canvasRef # Null /\ ctx # Null /\ props.initialized /\ ~ZeroDimension

\* the shape's dataName is a key among its parent's children
Resolves(shape) ==
    \E k \in 1..Len(shape.parent.children) : shape.parent.children[k][1] = shape.dataName

\* the data-row indices of the first child of the shape's parent whose key
\* is the shape's dataName; none if there is no such child or it has none
IndicesOf(shape) ==
    IF ~Resolves(shape) THEN {}
    ELSE LET ch == shape.parent.children
             k == CHOOSE n \in 1..Len(ch) :
                     /\ ch[n][1] = shape.dataName
                     /\ \A m \in 1..(n - 1) : ch[m][1] # shape.dataName
         IN  IF ch[k][2].hasInput
               THEN {ch[k][2].inputIndex[n] : n \in 1..Len(ch[k][2].inputIndex)}
               ELSE {}

UnionOfIndices(shapes) == UNION {IndicesOf(shapes[i]) : i \in 1..Len(shapes)}

RemoveAt(shapes, i) ==
    [n \in 1..(Len(shapes) - 1) |-> IF n < i THEN shapes[n] ELSE shapes[n + 1]]

\* C11: when pick's preconditions hold it returns exactly the sequence the
\* spatial query returned, same shapes in the same order; an empty query
\* result is returned as an empty sequence with an empty index collection,
\* which is not the none of a rejected pick.
C11_ReturnsQueryResult ==
    PickHeld =>
        /\ \E i \in QueriesOf(picked.calls) :
              picked.returned =
                  ArrayOf(PickQuads(props.geometries.pickQuads,
                                    picked.calls[i].x, picked.calls[i].y))
        /\ picked.returned.value = <<>> =>
              (picked.datumIndices = {} /\ picked.returned # Undefined)

\* a pick outside every shape returned the empty sequence, and the next
\* pick returned four overlapping shapes, one of them without a subtree
C11_Witness ==
    /\ PickHeld
    /\ prevPicked # NoPick
    /\ prevPicked.returned = ArrayOf(<<>>)
    /\ prevPicked.datumIndices = {}
    /\ Len(picked.returned.value) = 4
    /\ \E i \in 1..4 : ~Resolves(picked.returned.value[i])

\* C12: the aggregated index collection is the set union, over the picked
\* shapes whose subtree resolves, of the subtree's data-row indices, an
\* absent index attribute counting as empty.
C12_AggregatesUnion ==
    PickHeld => picked.datumIndices = UnionOfIndices(picked.returned.value)

\* subtrees with indices <<2,3>> and <<1,2>>, one without the attribute and
\* one unresolved shape aggregate to {1,2,3}
C12_Witness ==
    /\ PickHeld
    /\ Len(picked.returned.value) = 4
    /\ IndicesOf(picked.returned.value[1]) = {2, 3}
    /\ IndicesOf(picked.returned.value[2]) = {1, 2}
    /\ picked.datumIndices = {1, 2, 3}

\* C13: a picked shape whose dataName equals no key of its parent's
\* children contributes no indices, leaves the contributions of the shapes
\* before and after it as they are, does not abort the pick and is still
\* in the returned sequence.
C13_MissingSubtreeSkipped ==
    PickHeld =>
        /\ picked.returned.kind = "array"
        /\ \A i \in 1..Len(picked.returned.value) :
              ~Resolves(picked.returned.value[i]) =>
                  picked.datumIndices =
                      UnionOfIndices(RemoveAt(picked.returned.value, i))
        /\ \A n \in QueriesOf(picked.calls) :
              LET found == PickQuads(props.geometries.pickQuads,
                                     picked.calls[n].x, picked.calls[n].y)
              IN  \A j \in 1..Len(found) :
                      ~Resolves(found[j]) =>
                          \E i \in 1..Len(picked.returned.value) :
                              picked.returned.value[i] = found[j]

\* the unresolved shape is fourth of five; the shapes before and after it
\* contributed {1,2,3} and {4}
C13_Witness ==
    /\ PickHeld
    /\ Len(picked.returned.value) = 5
    /\ ~Resolves(picked.returned.value[4])
    /\ IndicesOf(picked.returned.value[5]) = {4}
    /\ picked.datumIndices = {1, 2, 3, 4}

\* C14: two picks in succession at the same pointer position, with no
\* update between them, return the same sequence (or both none) and
\* compute the same aggregated index set.
C14_PickIdempotent ==
    (picked # NoPick /\ prevPicked # NoPick /\ picked.event = prevPicked.event)
        => /\ picked.returned = prevPicked.returned
           /\ picked.datumIndices = prevPicked.datumIndices
           /\ picked.calls = prevPicked.calls

\* the same position was picked twice and hit shapes both times
C14_Witness ==
    /\ PickHeld
    /\ prevPicked # NoPick
    /\ picked.event = prevPicked.event
    /\ Len(picked.returned.value) >= 2
    /\ picked.datumIndices # {}

\* C15: a pick changes neither the props (geometry snapshot, container
\* dimensions, initialized flag) nor the held context nor the surface, and
\* makes no draw or notification call.
C15_PickReadOnly ==
    [][(picked' # NoPick /\ (picked' # picked \/ prevPicked' # prevPicked))
          => /\ props' = props
             /\ ctx' = ctx
             /\ canvasRef' = canvasRef
             /\ rendered' = rendered
             /\ devicePixelRatio' = devicePixelRatio
             /\ calls' = calls
             /\ log' = log]_vars

\* a pick on a drawn treemap has found a shape and its indices
C15_Witness ==
    /\ PickHeld
    /\ props.geometries = TreemapGeometry
    /\ Drew(calls)
    /\ Len(picked.returned.value) = 1
    /\ picked.datumIndices = {5, 6}

\* C16: the snapshot passed to the drawing routine has the current
\* container width and height in its config and every other field as
\* supplied; the supplied snapshot (this.props) is not modified by the
\* callback.
C16_DrawOverridesSize ==
    /\ [](pc = "idle" =>
            \A i \in 1..Len(calls) :
                calls[i].op = "renderPartitionCanvas2d" =>
                    /\ calls[i].geometries.config.width = Width
                    /\ calls[i].geometries.config.height = Height
                    /\ calls[i].geometries.config.partitionLayout
                          = props.geometries.config.partitionLayout
                    /\ calls[i].geometries.diskCenter = props.geometries.diskCenter
                    /\ calls[i].geometries.pickQuads = props.geometries.pickQuads)
    /\ [][(pc \in {"didMount", "didUpdate"}) => (props' = props)]_vars

\* a snapshot laid out for 200 x 100 was drawn as 100 x 50 and still
\* declares 200 x 100 itself
C16_Witness ==
    /\ pc = "idle"
    /\ props.geometries.config.width = 200
    /\ props.geometries.config.height = 100
    /\ \E i \in 1..Len(calls) :
          /\ calls[i].op = "renderPartitionCanvas2d"
          /\ calls[i].geometries.config.width = 100
          /\ calls[i].geometries.config.height = 50

\* C17: a presented surface has backing size (width x ratio, height x
\* ratio) and displayed size (width, height).  The ratio is in halves, so
\* the width and height attributes are in half pixels.
C17_BackingSize ==
    rendered # Null =>
        /\ Width # 0 /\ Height # 0
        /\ rendered.width = Width * devicePixelRatio
        /\ rendered.height = Height * devicePixelRatio
        /\ rendered.style = [width |-> Width, height |-> Height]

\* ratio 2.5 with logical 100 x 50: backing 250 x 125 (500 x 250 halves)
C17_Witness ==
    /\ rendered # Null
    /\ devicePixelRatio = 5
    /\ Width = 100 /\ Height = 50
    /\ rendered.width = 500
    /\ rendered.height = 250
    /\ rendered.style = [width |-> 100, height |-> 50]

\* C18: this.devicePixelRatio is the window's ratio at construction and
\* never changes; every draw call and every surface uses it, whatever the
\* window reports later.
C18_RatioFixedAtConstruction ==
    /\ devicePixelRatio = windowDevicePixelRatio
    /\ [][(devicePixelRatio' = devicePixelRatio)]_vars
    /\ [](/\ \A i \in 1..Len(calls) :
                calls[i].op = "renderPartitionCanvas2d" =>
                    calls[i].dpr = devicePixelRatio
          /\ rendered # Null =>
                (/\ rendered.width = rendered.style.width * devicePixelRatio
                 /\ rendered.height = rendered.style.height * devicePixelRatio))

\* the window reports another ratio than at construction, and an update
\* has presented and drawn the surface
C18_Witness ==
    /\ pc = "idle"
    /\ cycle >= 2
    /\ windowDevicePixelRatio # devicePixelRatio
    /\ rendered # Null
    /\ Drew(calls)

\* the snapshot a draw call should carry for the given props
DrawnSnapshot(p) ==
    [config |-> [width |-> p.chartContainerDimensions.width,
                 height |-> p.chartContainerDimensions.height,
                 partitionLayout |-> p.geometries.config.partitionLayout],
     diskCenter |-> p.geometries.diskCenter,
     pickQuads |-> p.geometries.pickQuads]

\* C19: a draw passes the snapshot and dimensions of the props supplied by
\* the latest render pass, and a pick uses that snapshot's diskCenter and
\* spatial index; neither uses the props of the pass before.
C19_LatestSnapshot ==
    /\ pc = "idle" =>
          \A i \in 1..Len(calls) :
              calls[i].op = "renderPartitionCanvas2d" =>
                  /\ calls[i].geometries = DrawnSnapshot(props)
                  /\ DrawnSnapshot(prevProps) # DrawnSnapshot(props)
                        => calls[i].geometries # DrawnSnapshot(prevProps)
    /\ PickHeld =>
          \A i \in QueriesOf(picked.calls) :
              /\ picked.calls[i].x + boundingRect.left + props.geometries.diskCenter.x
                    = picked.event.clientX
              /\ picked.calls[i].y + boundingRect.top + props.geometries.diskCenter.y
                    = picked.event.clientY
              /\ picked.returned.value
                    = PickQuads(props.geometries.pickQuads,
                                picked.calls[i].x, picked.calls[i].y)

\* the snapshot changed between two initialized passes; the update drew
\* and a pick hit shapes
C19_Witness ==
    /\ PickHeld
    /\ prevProps.initialized
    /\ prevProps.geometries # props.geometries
    /\ prevProps.chartContainerDimensions # props.chartContainerDimensions
    /\ Drew(calls)
    /\ picked.returned.value # <<>>

\* C20: a held context is the context of the surface currently mounted,
\* and every draw call of the last callback used that context.
C20_ContextOfMountedSurface ==
    pc = "idle" =>
        /\ ctx # Null => (canvasRef # Null /\ ctx = Context2d(canvasRef))
        /\ \A i \in 1..Len(calls) :
              calls[i].op = "renderPartitionCanvas2d" =>
                  (canvasRef # Null /\ calls[i].ctx = Context2d(canvasRef))
====
